---- MODULE Spec2Model ----
(***************************************************************************)
(* Model of src/storage/mvcc/reader/point_getter.rs: PointGetterBuilder    *)
(* and PointGetter (read_next, take_statistics, ensure_default_cursor).    *)
(* The snapshot, the cursors, the key codec, the write-record codec and    *)
(* the two helpers of mvcc::reader::util are collaborators whose code is   *)
(* not part of the file; they are modelled from their interface contracts. *)
(***************************************************************************)
EXTENDS Integers, Sequences, FiniteSets, TLC

(***************************************************************************)
(* Bounds of the model.                                                    *)
(***************************************************************************)
NumKeys == 2
MaxTs == 3
MaxWrites == 2
MaxVersions == 3
MaxProcessed == 2

Keys == 1..NumKeys
CommitTss == 1..MaxTs
ReadTss == 1..MaxTs

(***************************************************************************)
(* Key codec: a versioned key is the user key followed by the timestamp    *)
(* encoded in descending order, so that for one user key newer versions    *)
(* sort first and the versions of one user key are contiguous.             *)
(***************************************************************************)
TsSpan == MaxTs + 1

AppendTs(key, ts) == key * TsSpan + (MaxTs - ts)

\* A stored key too short to carry a timestamp suffix, sorting after the
\* versions of every user key.
ShortKey == (NumKeys + 1) * TsSpan

\* Fails (ok = FALSE) on a key too short to carry a timestamp suffix.
TruncateTs(enc) ==
    IF enc < TsSpan \/ enc >= ShortKey
    THEN [ok |-> FALSE, key |-> 0]
    ELSE [ok |-> TRUE, key |-> enc \div TsSpan]

DecodeTs(enc) == MaxTs - (enc % TsSpan)

(***************************************************************************)
(* Values and write records.  An Option is a sequence of length 0 or 1.    *)
(***************************************************************************)
None == <<>>
Some(x) == <<x>>
IsSome(o) == Len(o) = 1
Unwrap(o) == o[1]

ShortVal(key, commit_ts) == <<key, commit_ts>>
LongVal(key, start_ts) == <<key, start_ts, 0>>
EmptyValue == <<>>

WriteTypes == {"Put", "Delete", "Lock", "Rollback"}

Flag(write_type) ==
    CASE write_type = "Put" -> "P"
      [] write_type = "Delete" -> "D"
      [] write_type = "Lock" -> "L"
      [] write_type = "Rollback" -> "R"

\* Write::to_bytes: flag, start_ts, then the optional short value.
WriteToBytes(write) ==
    <<Flag(write.write_type), write.start_ts>>
        \o (IF IsSome(write.short_value)
            THEN <<"v", Unwrap(write.short_value)>>
            ELSE <<>>)

\* Write::parse: fails on empty input or an unknown flag.
WriteParse(bytes) ==
    IF Len(bytes) < 2 \/ bytes[1] \notin {"P", "D", "L", "R"}
    THEN [ok |-> FALSE,
          write |-> [write_type |-> "Rollback", start_ts |-> 0, short_value |-> None]]
    ELSE [ok |-> TRUE,
          write |-> [write_type |-> CASE bytes[1] = "P" -> "Put"
                                      [] bytes[1] = "D" -> "Delete"
                                      [] bytes[1] = "L" -> "Lock"
                                      [] bytes[1] = "R" -> "Rollback",
                     start_ts |-> bytes[2],
                     short_value |-> IF Len(bytes) >= 4 /\ bytes[3] = "v"
                                     THEN Some(bytes[4])
                                     ELSE None]]

(***************************************************************************)
(* Snapshot contents.  A column family is a sequence of entries sorted by  *)
(* encoded key.  The lock column family maps a user key to an optional     *)
(* lock.                                                                   *)
(***************************************************************************)
\* The kinds of committed record a transaction can leave in the write index.
RecordKinds == {"PutShort", "PutLong", "Delete", "Lock", "Rollback"}

\* The transaction that commits at commit_ts started just before it.
StartTsOf(commit_ts) == commit_ts - 1

WriteOfKind(kind, key, commit_ts) ==
    [write_type |-> CASE kind = "PutShort" -> "Put"
                      [] kind = "PutLong" -> "Put"
                      [] OTHER -> kind,
     start_ts |-> StartTsOf(commit_ts),
     short_value |-> IF kind = "PutShort"
                     THEN Some(ShortVal(key, commit_ts))
                     ELSE None]

Slots == Keys \X CommitTss

\* The i-th smallest element of a finite set of integers.
Nth(S, i) == CHOOSE x \in S : Cardinality({y \in S : y < x}) = i - 1

SortedSeq(S) == [i \in 1..Cardinality(S) |-> Nth(S, i)]

\* The write column family holding one record per slot of dom, of kind f[slot].
WriteCf(dom, f) ==
    LET encs == {AppendTs(s[1], s[2]) : s \in dom}
        order == SortedSeq(encs)
    IN [i \in 1..Len(order) |->
          LET enc == order[i]
              key == enc \div TsSpan
              commit_ts == DecodeTs(enc)
          IN [key |-> enc,
              value |-> WriteToBytes(WriteOfKind(f[<<key, commit_ts>>], key, commit_ts))]]

\* The default column family holding the payload of every Put without short value.
DefaultCf(dom, f) ==
    LET longs == {s \in dom : f[s] = "PutLong"}
        encs == {AppendTs(s[1], StartTsOf(s[2])) : s \in longs}
        order == SortedSeq(encs)
    IN [i \in 1..Len(order) |->
          [key |-> order[i],
           value |-> LongVal(order[i] \div TsSpan, DecodeTs(order[i]))]]

\* A lock of the lock column family: absent, one that conflicts with readers at
\* or above its start timestamp, or one that such readers may read below.
NoLock == [kind |-> "none", ts |-> 0]
LockKinds == {"conflict", "adjust"}

\* At most one key is locked: the first key, by a transaction that started
\* at LockTs.
LockTs == 2
LockedKey == 1
LockCfs ==
    {[k \in Keys |-> NoLock]}
        \cup {[k \in Keys |-> IF k = LockedKey THEN [kind |-> lk, ts |-> LockTs] ELSE NoLock] :
                 lk \in LockKinds}

(***************************************************************************)
(* Statistics.                                                             *)
(***************************************************************************)
StatisticsDefault == [write |-> [processed |-> 0], data |-> [processed |-> 0]]

(***************************************************************************)
(* Cursor over a column family: the iterator options it was built with and *)
(* its position; position 0 is a cursor that was never positioned, and a   *)
(* position past the last entry is an exhausted cursor.                    *)
(***************************************************************************)
build_iter_opt(fill_cache, prefix_filter) ==
    [fill_cache |-> fill_cache,
     prefix_seek |-> prefix_filter,
     prefix_same_as_start |-> prefix_filter]

\* Snapshot::iter_cf
IterCf(cf, iter_opt, scan_mode) ==
    [cf |-> cf, iter_opt |-> iter_opt, scan_mode |-> scan_mode, pos |-> 0]

CfOf(sn, cursor) == IF cursor.cf = "write" THEN sn.write_cf ELSE sn.default_cf

PrefixOf(enc) == enc \div TsSpan

CursorValid(sn, cursor) == cursor.pos \in 1..Len(CfOf(sn, cursor))

CursorKey(sn, cursor) == CfOf(sn, cursor)[cursor.pos].key

CursorValue(sn, cursor) == CfOf(sn, cursor)[cursor.pos].value

\* Position of the first entry at or after target; with the same-prefix
\* restriction an entry of another prefix leaves the cursor exhausted.
SeekPos(entries, iter_opt, target) ==
    LET hits == {i \in 1..Len(entries) : entries[i].key >= target}
        first == IF hits = {} THEN Len(entries) + 1
                 ELSE CHOOSE i \in hits : \A j \in hits : i <= j
    IN IF /\ iter_opt.prefix_same_as_start
          /\ first <= Len(entries)
          /\ PrefixOf(entries[first].key) # PrefixOf(target)
       THEN Len(entries) + 1
       ELSE first

\* Cursor::near_seek
NearSeek(sn, cursor, target) ==
    [cursor EXCEPT !.pos = SeekPos(CfOf(sn, cursor), cursor.iter_opt, target)]

\* Cursor::next: one entry forward; an invalid cursor stays invalid.
CursorNext(sn, cursor) ==
    LET entries == CfOf(sn, cursor)
    IN IF ~CursorValid(sn, cursor) THEN cursor
       ELSE IF /\ cursor.iter_opt.prefix_same_as_start
               /\ cursor.pos + 1 <= Len(entries)
               /\ PrefixOf(entries[cursor.pos + 1].key) # PrefixOf(entries[cursor.pos].key)
       THEN [cursor EXCEPT !.pos = Len(entries) + 1]
       ELSE [cursor EXCEPT !.pos = cursor.pos + 1]

(***************************************************************************)
(* Helpers of mvcc::reader::util.                                          *)
(***************************************************************************)
\* load_and_check_lock: Ok(ts), Ok(adjusted ts) or the conflict error.
load_and_check_lock(sn, key, ts) ==
    LET lock == sn.lock_cf[key]
    IN IF lock.kind = "none" \/ lock.ts > ts
       THEN [ok |-> TRUE, ts |-> ts]
       ELSE IF lock.kind = "adjust"
       THEN [ok |-> TRUE, ts |-> lock.ts - 1]
       ELSE [ok |-> FALSE, ts |-> ts]

\* load_data_by_write for a write without short value: seek the payload of
\* (key, write.start_ts) in the default column family.
load_data_by_write(sn, default_cursor, key, write, statistics) ==
    LET seek_key == AppendTs(key, write.start_ts)
        cursor == NearSeek(sn, default_cursor, seek_key)
    IN IF CursorValid(sn, cursor) /\ CursorKey(sn, cursor) = seek_key
       THEN [ok |-> TRUE,
             value |-> CursorValue(sn, cursor),
             cursor |-> cursor,
             statistics |-> [statistics EXCEPT !.data.processed = @ + 1]]
       ELSE [ok |-> FALSE,
             value |-> EmptyValue,
             cursor |-> cursor,
             statistics |-> statistics]

(***************************************************************************)
(* PointGetter.  self is the struct: multi, fill_cache, omit_value,        *)
(* isolation_level, statistics, read_once, write_cursor, default_cursor.   *)
(* The outcome of a call is Ok(Some(value)), Ok(None), Err(e) or a panic.  *)
(***************************************************************************)
OkSome(value) == [tag |-> "OkSome", value |-> value, err |-> "none"]
OkNone == [tag |-> "OkNone", value |-> EmptyValue, err |-> "none"]
Err(e) == [tag |-> "Err", value |-> EmptyValue, err |-> e]
Panic == [tag |-> "Panic", value |-> EmptyValue, err |-> "none"]
NoResult == [tag |-> "NoResult", value |-> EmptyValue, err |-> "none"]

\* What a call leaves behind: its result, the struct, and how many times it
\* invoked the lock-check collaborator.
Outcome(result, self, lock_calls) ==
    [result |-> result, self |-> self, lock_calls |-> lock_calls]

\* Mutant of ensure_default_cursor: the cursor is created on every call.
ensure_default_cursor_Recreate(self, fault) ==
    IF fault = "iter_cf"
    THEN [ok |-> FALSE, self |-> self]
    ELSE [ok |-> TRUE,
          self |-> [self EXCEPT !.default_cursor =
                      Some(IterCf("default",
                                  build_iter_opt(self.fill_cache, ~self.multi),
                                  "Forward"))]]

\* ensure_default_cursor
ensure_default_cursor(self, fault) ==
    IF IsSome(self.default_cursor)
    THEN [ok |-> TRUE, self |-> self]
    ELSE IF fault = "iter_cf"
    THEN [ok |-> FALSE, self |-> self]
    ELSE [ok |-> TRUE,
          self |-> [self EXCEPT !.default_cursor =
                      Some(IterCf("default",
                                  build_iter_opt(self.fill_cache, ~self.multi),
                                  "Forward"))]]

\* Mutants of MustPanic: the guard dropped; the guard ignoring multi.
MustPanic_Never(self) == FALSE

MustPanic_Always(self) == self.read_once

\* Mutant of MustPanic: the multi flag read the wrong way round.
MustPanic_Inverted(self) == self.multi /\ self.read_once

\* The guard of the misuse panic at the head of read_next.
MustPanic(self) == ~self.multi /\ self.read_once

\* Mutant of ChecksLock: locks checked under every isolation level.
ChecksLock_Always(self) == TRUE

\* Whether read_next checks locks first.
ChecksLock(self) == self.isolation_level = "SI"

\* Mutant of MovedToAnotherKey: the user key of the entry is not compared.
MovedToAnotherKey_Never(user_key, key) == FALSE

\* The scan of a key ends when the cursor has moved to another user key.
MovedToAnotherKey(user_key, key) == user_key # key

\* Mutant of ReadPut: omit_value tested only for writes without short value.
ReadPut_OmitLate(self, sn, key, write, fault) ==
    IF IsSome(write.short_value)
    THEN [result |-> OkSome(Unwrap(write.short_value)), self |-> self]
    ELSE [result |-> OkSome(EmptyValue), self |-> self]

\* Mutant of ReadPut: the omit_value test inverted.
ReadPut_OmitInverted(self, sn, key, write, fault) ==
    IF ~self.omit_value
    THEN [result |-> OkSome(EmptyValue), self |-> self]
    ELSE IF IsSome(write.short_value)
    THEN [result |-> OkSome(Unwrap(write.short_value)), self |-> self]
    ELSE [result |-> OkSome(EmptyValue), self |-> self]

\* Mutant of ReadPut: a payload missing from the value store read as not found.
ReadPut_MissingIsNotFound(self, sn, key, write, fault) ==
    IF self.omit_value
    THEN [result |-> OkSome(EmptyValue), self |-> self]
    ELSE IF IsSome(write.short_value)
    THEN [result |-> OkSome(Unwrap(write.short_value)), self |-> self]
    ELSE LET ensured == ensure_default_cursor(self, fault)
         IN IF ~ensured.ok
            THEN [result |-> Err("Engine"), self |-> ensured.self]
            ELSE LET loaded == load_data_by_write(sn, Unwrap(ensured.self.default_cursor),
                                                  key, write, ensured.self.statistics)
                     self2 == [ensured.self EXCEPT
                                 !.default_cursor = Some(loaded.cursor),
                                 !.statistics = loaded.statistics]
                 IN IF loaded.ok
                    THEN [result |-> OkSome(loaded.value), self |-> self2]
                    ELSE [result |-> OkNone, self |-> self2]

\* The WriteType::Put arm of the match in read_next.
ReadPut(self, sn, key, write, fault) ==
    IF self.omit_value
    THEN [result |-> OkSome(EmptyValue), self |-> self]
    ELSE IF IsSome(write.short_value)
    THEN [result |-> OkSome(Unwrap(write.short_value)), self |-> self]
    ELSE LET ensured == ensure_default_cursor(self, fault)
         IN IF ~ensured.ok
            THEN [result |-> Err("Engine"), self |-> ensured.self]
            ELSE LET loaded == load_data_by_write(sn, Unwrap(ensured.self.default_cursor),
                                                  key, write, ensured.self.statistics)
                     self2 == [ensured.self EXCEPT
                                 !.default_cursor = Some(loaded.cursor),
                                 !.statistics = loaded.statistics]
                 IN IF loaded.ok
                    THEN [result |-> OkSome(loaded.value), self |-> self2]
                    ELSE [result |-> Err("DefaultNotFound"), self |-> self2]

\* The cursor movement right after a write record was parsed.
AdvanceParsed(sn, cursor) == CursorNext(sn, cursor)

\* Mutant of AdvanceSkipped: the cursor is moved back instead of forward.
AdvanceSkipped_Back(sn, cursor) ==
    [cursor EXCEPT !.pos = IF @ > 1 THEN @ - 1 ELSE @]

\* The cursor movement at the bottom of the loop, after a Lock or Rollback.
AdvanceSkipped(sn, cursor) == CursorNext(sn, cursor)

\* One iteration of the loop of read_next: it returns (done) or it has
\* skipped a Lock or Rollback and loops.
WalkIteration(self, sn, key, fault) ==
    IF ~CursorValid(sn, self.write_cursor)
    THEN [done |-> TRUE, result |-> OkNone, self |-> self]
    ELSE LET write_key == CursorKey(sn, self.write_cursor)
             user_key == TruncateTs(write_key)
         IN IF ~user_key.ok
            THEN [done |-> TRUE, result |-> Err("BadKey"), self |-> self]
            ELSE IF MovedToAnotherKey(user_key.key, key)
            THEN [done |-> TRUE, result |-> OkNone, self |-> self]
            ELSE LET parsed == WriteParse(CursorValue(sn, self.write_cursor))
                     write == parsed.write
                     self1 == [self EXCEPT
                                 !.statistics.write.processed = @ + 1,
                                 !.write_cursor = AdvanceParsed(sn, @)]
                 IN IF ~parsed.ok
                    THEN [done |-> TRUE, result |-> Err("BadWrite"), self |-> self]
                    ELSE CASE write.write_type = "Put" ->
                                LET put == ReadPut(self1, sn, key, write, fault)
                                IN [done |-> TRUE, result |-> put.result, self |-> put.self]
                           [] write.write_type = "Delete" ->
                                [done |-> TRUE, result |-> OkNone, self |-> self1]
                           [] OTHER ->
                                [done |-> FALSE, result |-> NoResult,
                                 self |-> [self1 EXCEPT
                                             !.write_cursor = AdvanceSkipped(sn, @)]]

\* The loop of read_next, entered with the write cursor positioned by the seek.
RECURSIVE VersionWalk(_, _, _, _)
VersionWalk(self, sn, key, fault) ==
    CHOOSE walked \in
        {IF step.done
         THEN [result |-> step.result, self |-> step.self]
         ELSE VersionWalk(step.self, sn, key, fault) :
            step \in {WalkIteration(self, sn, key, fault)}} : TRUE

\* Mutant of AdoptTs: the timestamp of the lock check is dropped.
AdoptTs_KeepRequested(ts, checked) == ts

\* The timestamp the call continues with after the lock check.
AdoptTs(ts, checked) == checked.ts

\* Mutant of PositionWriteCursor: a cursor that is already positioned is not
\* moved by the seek.
PositionWriteCursor_OnlyOnce(self, sn, key, ts) ==
    IF self.write_cursor.pos # 0
    THEN self
    ELSE [self EXCEPT !.write_cursor = NearSeek(sn, @, AppendTs(key, ts))]

\* Mutant of PositionWriteCursor: the seek goes to the newest version of the
\* key whatever the timestamp.
PositionWriteCursor_IgnoresTs(self, sn, key, ts) ==
    [self EXCEPT !.write_cursor = NearSeek(sn, @, AppendTs(key, MaxTs))]

\* The seek of the write cursor to key_ts.
PositionWriteCursor(self, sn, key, ts) ==
    [self EXCEPT !.write_cursor = NearSeek(sn, @, AppendTs(key, ts))]

\* Mutant of read_next: the one-shot guard is consumed only once the lock
\* check has passed.
read_next_GuardAfterLockCheck(self, sn, key, ts, fault) ==
    IF MustPanic(self)
    THEN Outcome(Panic, self, 0)
    ELSE LET checks == ChecksLock(self)
             checked == IF checks
                        THEN load_and_check_lock(sn, key, ts)
                        ELSE [ok |-> TRUE, ts |-> ts]
             lock_calls == IF checks THEN 1 ELSE 0
             self1 == [self EXCEPT !.read_once = TRUE]
         IN IF ~checked.ok
            THEN Outcome(Err("Conflict"), self, lock_calls)
            ELSE IF fault = "seek"
            THEN Outcome(Err("Engine"), self1, lock_calls)
            ELSE LET self2 == PositionWriteCursor(self1, sn, key, AdoptTs(ts, checked))
                     walked == VersionWalk(self2, sn, key, fault)
                 IN Outcome(walked.result, walked.self, lock_calls)

\* read_next
read_next(self, sn, key, ts, fault) ==
    IF MustPanic(self)
    THEN Outcome(Panic, self, 0)
    ELSE LET self1 == [self EXCEPT !.read_once = TRUE]
             checks == ChecksLock(self1)
             checked == IF checks
                        THEN load_and_check_lock(sn, key, ts)
                        ELSE [ok |-> TRUE, ts |-> ts]
             lock_calls == IF checks THEN 1 ELSE 0
         IN IF ~checked.ok
            THEN Outcome(Err("Conflict"), self1, lock_calls)
            ELSE IF fault = "seek"
            THEN Outcome(Err("Engine"), self1, lock_calls)
            ELSE LET self2 == PositionWriteCursor(self1, sn, key, AdoptTs(ts, checked))
                 IN VersionWalk(self2, sn, key, fault) @@ [lock_calls |-> lock_calls]

\* Mutant of take_statistics: the statistics are copied out but not reset.
take_statistics_NoReset(self) ==
    [returned |-> self.statistics, self |-> self]

\* take_statistics: the returned statistics and the struct left behind.
take_statistics(self) ==
    [returned |-> self.statistics,
     self |-> [self EXCEPT !.statistics = StatisticsDefault]]

(***************************************************************************)
(* PointGetterBuilder.                                                     *)
(***************************************************************************)
IsolationLevels == {"SI", "RC"}

\* PointGetterBuilder::new
BuilderNew ==
    [multi |-> TRUE, fill_cache |-> TRUE, omit_value |-> FALSE, isolation_level |-> "SI"]

\* PointGetterBuilder::build
build(b) ==
    [multi |-> b.multi,
     fill_cache |-> b.fill_cache,
     omit_value |-> b.omit_value,
     isolation_level |-> b.isolation_level,
     statistics |-> StatisticsDefault,
     read_once |-> FALSE,
     write_cursor |-> IterCf("write", build_iter_opt(b.fill_cache, ~b.multi), "Forward"),
     default_cursor |-> None]

(***************************************************************************)
(* State machine.                                                          *)
(***************************************************************************)
VARIABLES
    snapshot,   \* the immutable snapshot: write_cf, default_cf, lock_cf, faulty
    builder,    \* the PointGetterBuilder, until it is consumed by build()
    getter,     \* the PointGetter struct once built
    phase,      \* "builder", "getter", or "aborted" after the misuse panic
    called,     \* whether read_next has been called on the getter
    last        \* the last operation: its arguments, the engine failure that
                \* struck it, and what it returned

vars == <<snapshot, builder, getter, phase, called, last>>

NoGetter == build(BuilderNew)

LastOf(op, key, ts, result, lock_calls, returned) ==
    [op |-> op, key |-> key, ts |-> ts, fault |-> "none", result |-> result,
     lock_calls |-> lock_calls, returned |-> returned]

\* The snapshot of a healthy store: every record decodes, every Put without
\* short value has its payload, the engine does not fail.
HealthySnapshot(dom, f, lock_cf) ==
    [write_cf |-> WriteCf(dom, f),
     default_cf |-> DefaultCf(dom, f),
     lock_cf |-> lock_cf,
     faulty |-> FALSE]

\* The write index holds at most MaxWrites records, or at most MaxVersions
\* versions of a single key.
WriteDomains ==
    {d \in SUBSET Slots :
        \/ Cardinality(d) <= MaxWrites
        \/ /\ Cardinality(d) <= MaxVersions
           /\ \E key \in Keys : \A s \in d : s[1] = key}

Init ==
    /\ \E dom \in WriteDomains :
         \E f \in [dom -> RecordKinds] :
           \E lock_cf \in LockCfs :
             snapshot = HealthySnapshot(dom, f, lock_cf)
    /\ builder = BuilderNew
    /\ getter = NoGetter
    /\ phase = "builder"
    /\ called = FALSE
    /\ last = LastOf("new", 0, 0, NoResult, 0, StatisticsDefault)

SetMulti(b) ==
    /\ phase = "builder"
    /\ builder' = [builder EXCEPT !.multi = b]
    /\ last' = LastOf("set", 0, 0, NoResult, 0, StatisticsDefault)
    /\ UNCHANGED <<snapshot, getter, phase, called>>

SetFillCache(b) ==
    /\ phase = "builder"
    /\ builder' = [builder EXCEPT !.fill_cache = b]
    /\ last' = LastOf("set", 0, 0, NoResult, 0, StatisticsDefault)
    /\ UNCHANGED <<snapshot, getter, phase, called>>

SetOmitValue(b) ==
    /\ phase = "builder"
    /\ builder' = [builder EXCEPT !.omit_value = b]
    /\ last' = LastOf("set", 0, 0, NoResult, 0, StatisticsDefault)
    /\ UNCHANGED <<snapshot, getter, phase, called>>

SetIsolationLevel(l) ==
    /\ phase = "builder"
    /\ builder' = [builder EXCEPT !.isolation_level = l]
    /\ last' = LastOf("set", 0, 0, NoResult, 0, StatisticsDefault)
    /\ UNCHANGED <<snapshot, getter, phase, called>>

Build ==
    /\ phase = "builder"
    /\ getter' = build(builder)
    /\ phase' = "getter"
    /\ last' = LastOf("build", 0, 0, NoResult, 0, StatisticsDefault)
    /\ UNCHANGED <<snapshot, builder, called>>

Faults(sn) == IF sn.faulty THEN {"none", "seek", "iter_cf"} ELSE {"none"}

ReadNext(key, ts, fault) ==
    /\ phase = "getter"
    /\ getter.statistics.write.processed < MaxProcessed
    /\ \E out \in {read_next(getter, snapshot, key, ts, fault)} :
          /\ getter' = out.self
          /\ phase' = IF out.result.tag = "Panic" THEN "aborted" ELSE "getter"
          /\ last' = [LastOf("read_next", key, ts, out.result, out.lock_calls,
                             StatisticsDefault) EXCEPT !.fault = fault]
    /\ called' = TRUE
    /\ UNCHANGED <<snapshot, builder>>

TakeStatistics ==
    /\ phase = "getter"
    /\ \E out \in {take_statistics(getter)} :
          /\ getter' = out.self
          /\ last' = LastOf("take_statistics", 0, 0, NoResult, 0, out.returned)
    /\ UNCHANGED <<snapshot, builder, phase, called>>

Next ==
    \/ \E b \in BOOLEAN : SetMulti(b)
    \/ \E b \in BOOLEAN : SetFillCache(b)
    \/ \E b \in BOOLEAN : SetOmitValue(b)
    \/ \E l \in IsolationLevels : SetIsolationLevel(l)
    \/ Build
    \/ \E key \in Keys, ts \in ReadTss, fault \in Faults(snapshot) : ReadNext(key, ts, fault)
    \/ TakeStatistics

Spec == Init /\ [][Next]_vars

(***************************************************************************)
(* The same program over a store that is damaged or an engine that may     *)
(* fail: one write record that does not parse, one Put whose payload is    *)
(* missing from the value store, one stored key that is too short to carry *)
(* a timestamp, or (over an undamaged store) an engine whose seek of the   *)
(* write cursor and whose creation of the value-store cursor may fail in   *)
(* any call.                                                               *)
(***************************************************************************)
Damages == {"none", "BadWrite", "LostPayload", "BadKey"}

\* The bytes of a write record that does not parse.
Garbage == <<"?">>

Damaged(sn, damage, i) ==
    CASE damage = "BadWrite" ->
            [sn EXCEPT !.write_cf[i].value = Garbage]
      [] damage = "LostPayload" ->
            [sn EXCEPT !.default_cf = SelectSeq(@, LAMBDA e : e # sn.default_cf[i])]
      [] damage = "BadKey" ->
            [sn EXCEPT !.write_cf = Append(@, [key |-> ShortKey, value |-> Garbage])]
      [] OTHER -> [sn EXCEPT !.faulty = TRUE]

\* Where a damage can strike a healthy snapshot.
DamagePoints(sn, damage) ==
    CASE damage = "BadWrite" -> 1..Len(sn.write_cf)
      [] damage = "LostPayload" -> 1..Len(sn.default_cf)
      [] OTHER -> {1}

\* The damaged stores hold at most MaxWrites records, all of one key.
FaultDomains ==
    {d \in SUBSET Slots :
        /\ Cardinality(d) <= MaxWrites
        /\ \E key \in Keys : \A s \in d : s[1] = key}

FaultInit ==
    /\ \E dom \in FaultDomains :
         \E f \in [dom -> RecordKinds] :
           \E lock_cf \in {l \in LockCfs : l[LockedKey].kind # "adjust"} :
             \E damage \in Damages :
               \E i \in DamagePoints(HealthySnapshot(dom, f, lock_cf), damage) :
                 snapshot = Damaged(HealthySnapshot(dom, f, lock_cf), damage, i)
    /\ builder = BuilderNew
    /\ getter = NoGetter
    /\ phase = "builder"
    /\ called = FALSE
    /\ last = LastOf("new", 0, 0, NoResult, 0, StatisticsDefault)

FaultSpec == FaultInit /\ [][Next]_vars

(***************************************************************************)
(* read_next step by step: the call enters (guard, lock check, seek), then *)
(* the loop runs one iteration at a time until one returns.  phase is      *)
(* "walk" while the loop runs; last.result is NoResult until it returns.   *)
(* One call is followed per behaviour, its seek positions the write cursor *)
(* wherever earlier calls left it; the stores carry no lock, a lock only   *)
(* fails the call before the loop or changes the timestamp of the seek.    *)
(***************************************************************************)
WalkInit ==
    /\ snapshot = HealthySnapshot({}, <<>>, [k \in Keys |-> NoLock])
    /\ builder = BuilderNew
    /\ getter = NoGetter
    /\ phase = "builder"
    /\ called = FALSE
    /\ last = LastOf("new", 0, 0, NoResult, 0, StatisticsDefault)

\* The snapshot is taken and the getter is built over it.
WalkBuild(sn, multi) ==
    /\ phase = "builder"
    /\ snapshot' = sn
    /\ builder' = [builder EXCEPT !.multi = multi]
    /\ getter' = build(builder')
    /\ phase' = "getter"
    /\ last' = LastOf("build", 0, 0, NoResult, 0, StatisticsDefault)
    /\ UNCHANGED called

\* Lines 154-167: the guard, the lock check and the seek.
WalkEnter(key, ts) ==
    /\ phase = "getter"
    /\ ~called
    /\ called' = TRUE
    /\ UNCHANGED <<snapshot, builder>>
    /\ IF MustPanic(getter)
       THEN /\ phase' = "aborted"
            /\ getter' = getter
            /\ last' = LastOf("read_next", key, ts, Panic, 0, StatisticsDefault)
       ELSE LET self1 == [getter EXCEPT !.read_once = TRUE]
                checks == ChecksLock(self1)
                checked == IF checks
                           THEN load_and_check_lock(snapshot, key, ts)
                           ELSE [ok |-> TRUE, ts |-> ts]
                lock_calls == IF checks THEN 1 ELSE 0
            IN IF ~checked.ok
               THEN /\ phase' = "getter"
                    /\ getter' = self1
                    /\ last' = LastOf("read_next", key, ts, Err("Conflict"), lock_calls,
                                      StatisticsDefault)
               ELSE /\ phase' = "walk"
                    /\ getter' = PositionWriteCursor(self1, snapshot, key, AdoptTs(ts, checked))
                    /\ last' = LastOf("read_next", key, ts, NoResult, lock_calls,
                                      StatisticsDefault)

\* Lines 169-216: one iteration of the loop.
WalkIterate ==
    /\ phase = "walk"
    /\ getter.statistics.write.processed < MaxProcessed + MaxTs
    /\ \E step \in {WalkIteration(getter, snapshot, last.key, "none")} :
          /\ getter' = step.self
          /\ phase' = IF step.done THEN "getter" ELSE "walk"
          /\ last' = [last EXCEPT !.result = step.result]
    /\ UNCHANGED <<snapshot, builder, called>>

WalkNext ==
    \/ /\ phase = "builder"
       /\ \E dom \in WriteDomains :
            \E f \in [dom -> RecordKinds] :
              \E multi \in BOOLEAN :
                WalkBuild(HealthySnapshot(dom, f, [k \in Keys |-> NoLock]), multi)
    \/ \E key \in Keys, ts \in ReadTss : WalkEnter(key, ts)
    \/ WalkIterate

\* A call that has begun runs on: nothing else is scheduled on the thread.
WalkSpec == WalkInit /\ [][WalkNext]_vars /\ WF_vars(WalkIterate)

(***************************************************************************)
(* Vocabulary of the properties: the records of a user key in the write    *)
(* index, read off the snapshot.                                           *)
(***************************************************************************)
\* Positions of the records of key in the write index.
RecordsOf(sn, key) ==
    {i \in 1..Len(sn.write_cf) : PrefixOf(sn.write_cf[i].key) = key}

CommitTsAt(sn, i) == DecodeTs(sn.write_cf[i].key)

WriteAt(sn, i) == WriteParse(sn.write_cf[i].value).write

IsDecisive(sn, i) == WriteAt(sn, i).write_type \in {"Put", "Delete"}

\* Positions of the records of key committed at or below ts.
VisibleRecords(sn, key, ts) == {i \in RecordsOf(sn, key) : CommitTsAt(sn, i) <= ts}

\* The newest of a set of positions of one key (none or one position).
NewestOf(sn, positions) ==
    {i \in positions : \A j \in positions : CommitTsAt(sn, j) <= CommitTsAt(sn, i)}

\* The newest record of key at or below ts, of any type.
NewestRecord(sn, key, ts) == NewestOf(sn, VisibleRecords(sn, key, ts))

\* The newest Put or Delete of key at or below ts.
NewestVersion(sn, key, ts) ==
    NewestOf(sn, {i \in VisibleRecords(sn, key, ts) : IsDecisive(sn, i)})

\* The payload of the Put at position i: inlined, or held by the value store.
PayloadsAt(sn, i) ==
    LET write == WriteAt(sn, i)
        stored == AppendTs(PrefixOf(sn.write_cf[i].key), write.start_ts)
    IN IF IsSome(write.short_value)
       THEN {Unwrap(write.short_value)}
       ELSE {sn.default_cf[j].value : j \in {j \in 1..Len(sn.default_cf) : sn.default_cf[j].key = stored}}

\* The lock of key that is in the way of a reader at ts.
LockInWay(sn, key, ts) == sn.lock_cf[key].kind # "none" /\ sn.lock_cf[key].ts <= ts

ConflictingLock(sn, key, ts) == LockInWay(sn, key, ts) /\ sn.lock_cf[key].kind = "conflict"

\* The last operation was a read_next call that returned to its caller.
Returned == phase = "getter" /\ last.op = "read_next"

\* The timestamp the last read_next call walked the versions at.
EffectiveTs ==
    IF getter.isolation_level = "SI" /\ LockInWay(snapshot, last.key, last.ts)
    THEN snapshot.lock_cf[last.key].ts - 1
    ELSE last.ts

\* The snapshot without the Lock and Rollback records of its write index.
WithoutSkipped(sn) ==
    [sn EXCEPT !.write_cf =
        SelectSeq(sn.write_cf,
                  LAMBDA e : WriteParse(e.value).write.write_type \in {"Put", "Delete"})]

\* The snapshot without locks.
WithoutLocks(sn) == [sn EXCEPT !.lock_cf = [k \in Keys |-> NoLock]]

\* The result of read_next(key, ts) on a getter freshly built as the current one.
FreshResult(sn, key, ts) ==
    read_next(build([multi |-> getter.multi, fill_cache |-> getter.fill_cache,
                     omit_value |-> getter.omit_value,
                     isolation_level |-> getter.isolation_level]),
              sn, key, ts, "none").result

(***************************************************************************)
(* C1.  With no lock in the way (or under relaxed isolation) and           *)
(* omit_value = false: if the newest write record of K at or below ts is a *)
(* Put whose payload V is inlined or present in the value store,           *)
(* read_next(K, ts) returns Some(V); if K has no record at or below ts it  *)
(* returns not found.                                                      *)
(***************************************************************************)
C1_NewestPutIsReturned ==
    (/\ Returned
     /\ ~getter.omit_value
     /\ (getter.isolation_level # "SI" \/ ~LockInWay(snapshot, last.key, last.ts)))
    => LET newest == NewestRecord(snapshot, last.key, last.ts)
       IN /\ \A i \in newest :
               WriteAt(snapshot, i).write_type = "Put"
               => \A v \in PayloadsAt(snapshot, i) : last.result = OkSome(v)
          /\ newest = {} => last.result = OkNone

\* A read between two versions that fetched the older payload from the value store.
C1_Witness ==
    /\ Returned
    /\ ~getter.omit_value
    /\ last.result.tag = "OkSome"
    /\ Len(last.result.value) = 3
    /\ \E i \in RecordsOf(snapshot, last.key) : CommitTsAt(snapshot, i) > last.ts
    /\ \A i \in NewestRecord(snapshot, last.key, last.ts) : CommitTsAt(snapshot, i) < last.ts

(***************************************************************************)
(* C2.  Lock and Rollback records are transparent: the result of           *)
(* read_next(K, ts) is the result the same call gives on the write index   *)
(* without its Lock and Rollback records.                                  *)
(***************************************************************************)
C2_SkippedRecordsAreTransparent ==
    (Returned /\ last.result.tag # "Err")
    => last.result = FreshResult(WithoutSkipped(snapshot), last.key, last.ts)

(***************************************************************************)
(* C3.  With no lock in the way: if the newest write record of K at or     *)
(* below ts is a Delete the result is not found, also when an older Put    *)
(* exists; and a read below a Delete whose visible version is a Put        *)
(* returns that Put's payload.                                             *)
(***************************************************************************)
C3_DeleteHidesOlderPut ==
    (/\ Returned
     /\ (getter.isolation_level # "SI" \/ ~LockInWay(snapshot, last.key, last.ts)))
    => /\ \A i \in NewestRecord(snapshot, last.key, last.ts) :
            WriteAt(snapshot, i).write_type = "Delete" => last.result = OkNone
       /\ \A i \in NewestVersion(snapshot, last.key, last.ts) :
            (/\ WriteAt(snapshot, i).write_type = "Put"
             /\ ~getter.omit_value
             /\ \E d \in RecordsOf(snapshot, last.key) :
                   /\ WriteAt(snapshot, d).write_type = "Delete"
                   /\ CommitTsAt(snapshot, d) > last.ts)
            => \A v \in PayloadsAt(snapshot, i) : last.result = OkSome(v)

(***************************************************************************)
(* C4.  A freshly created builder has isolation level SI.  Under SI a      *)
(* conflicting lock on K at or below ts makes read_next(K, ts) fail with   *)
(* the conflict error; under another level the lock collaborator is not    *)
(* invoked and the result is the one the call gives without any lock.      *)
(***************************************************************************)
C4_LockCheckedOnlyUnderSI ==
    /\ last.op = "new" => builder.isolation_level = "SI"
    /\ Returned =>
         /\ (getter.isolation_level = "SI" /\ ConflictingLock(snapshot, last.key, last.ts))
            => last.result = Err("Conflict")
         /\ getter.isolation_level # "SI"
            => /\ last.lock_calls = 0
               /\ last.result = FreshResult(WithoutLocks(snapshot), last.key, last.ts)

\* A conflict reported under SI for a key whose visible version is a Put.
C4_Witness ==
    /\ Returned
    /\ getter.isolation_level = "SI"
    /\ ConflictingLock(snapshot, last.key, last.ts)
    /\ last.result = Err("Conflict")
    /\ \E i \in NewestRecord(snapshot, last.key, last.ts) :
          WriteAt(snapshot, i).write_type = "Put"

(***************************************************************************)
(* C5.  On a getter built with multi = false every read_next call after    *)
(* the first one panics, whatever its key and timestamp.                   *)
(***************************************************************************)
C5_SecondCallPanics ==
    [][(phase = "getter" /\ called /\ ~getter.multi /\ last'.op = "read_next")
       => (phase' = "aborted" /\ last'.result = Panic)]_vars

\* A single-use getter aborted by its second call.
C5_Witness ==
    /\ phase = "aborted"
    /\ ~getter.multi
    /\ called
    /\ last.result = Panic

(***************************************************************************)
(* C6.  With omit_value = true a call whose walk ends on a Put returns the *)
(* zero-length value whatever the payload, every other outcome is the one  *)
(* of the same call with omit_value = false, and the value-store cursor is *)
(* neither created nor read.                                               *)
(***************************************************************************)
C6_OmitValue ==
    [][(phase = "getter" /\ phase' = "getter" /\ getter.omit_value /\ last'.op = "read_next")
       => LET full == read_next([getter EXCEPT !.omit_value = FALSE],
                                snapshot, last'.key, last'.ts, "none").result
          IN /\ full.tag = "OkSome" => last'.result = OkSome(EmptyValue)
             /\ full.tag # "OkSome" => last'.result = full
             /\ getter'.default_cursor = None
             /\ getter'.statistics.data = getter.statistics.data]_vars

\* Existence reported for a Put whose payload lives in the value store.
C6_Witness ==
    /\ Returned
    /\ getter.omit_value
    /\ last.result = OkSome(EmptyValue)
    /\ getter.default_cursor = None
    /\ \E i \in NewestRecord(snapshot, last.key, EffectiveTs) :
          /\ WriteAt(snapshot, i).write_type = "Put"
          /\ ~IsSome(WriteAt(snapshot, i).short_value)

(***************************************************************************)
(* C7.  As stated: read_next(K, ts) returns not found whenever K has no    *)
(* write record at or below ts.                                            *)
(***************************************************************************)
C7_AbsentKeyIsNotFound ==
    (Returned /\ VisibleRecords(snapshot, last.key, last.ts) = {})
    => last.result = OkNone

(***************************************************************************)
(* C7, amended.  read_next(K, ts) returns not found whenever the lock      *)
(* check of the call does not report a conflict and K has no write record  *)
(* at or below ts, whatever records of other keys surround K.              *)
(***************************************************************************)
C7_AbsentKeyIsNotFoundUnlessConflict ==
    (/\ Returned
     /\ VisibleRecords(snapshot, last.key, last.ts) = {}
     /\ ~(getter.isolation_level = "SI" /\ ConflictingLock(snapshot, last.key, last.ts)))
    => last.result = OkNone

\* Not found for a key whose only record is too new, the cursor having
\* landed on the record of the next key.
C7_Witness ==
    /\ Returned
    /\ last.result = OkNone
    /\ RecordsOf(snapshot, last.key) # {}
    /\ VisibleRecords(snapshot, last.key, last.ts) = {}
    /\ RecordsOf(snapshot, last.key + 1) # {}
    /\ getter.multi
    /\ CursorValid(snapshot, getter.write_cursor)

C9_TakeStatistics ==
    [][last'.op = "take_statistics"
       => /\ last'.returned = getter.statistics
          /\ getter' = [getter EXCEPT !.statistics = StatisticsDefault]
          /\ UNCHANGED <<snapshot, builder, phase, called>>
          /\ \A key \in Keys, ts \in ReadTss :
                read_next(getter', snapshot, key, ts, "none").result
                    = read_next(getter, snapshot, key, ts, "none").result]_vars

\* Statistics of a value-store read taken out, the cursors left in place.
C9_Witness ==
    /\ last.op = "take_statistics"
    /\ last.returned.write.processed > 0
    /\ last.returned.data.processed > 0
    /\ getter.statistics = StatisticsDefault
    /\ CursorValid(snapshot, getter.write_cursor)
    /\ IsSome(getter.default_cursor)

(***************************************************************************)
(* C10.  The walk stops at the first decisive record: a returned payload   *)
(* is never the payload of a Put of K above which a newer Put or Delete of  *)
(* K exists at or below the effective read timestamp.                      *)
(***************************************************************************)
C10_StopsAtFirstDecisiveRecord ==
    (Returned /\ ~getter.omit_value /\ last.result.tag = "OkSome")
    => \A p \in RecordsOf(snapshot, last.key) :
         (/\ WriteAt(snapshot, p).write_type = "Put"
          /\ last.result.value \in PayloadsAt(snapshot, p))
         => ~\E d \in RecordsOf(snapshot, last.key) :
               /\ IsDecisive(snapshot, d)
               /\ CommitTsAt(snapshot, d) > CommitTsAt(snapshot, p)
               /\ CommitTsAt(snapshot, d) <= EffectiveTs

(***************************************************************************)
(* C11.  Under SI, when the lock check returns an adjusted timestamp ts'   *)
(* for read_next(K, ts), the seek and the walk of the call use ts': the    *)
(* result is the one of the walk of K at ts' and not at ts.  The           *)
(* adjustment is local to the call: every call whose lock check returns    *)
(* the timestamp of its caller walks at that timestamp, whatever calls     *)
(* came before it.                                                         *)
(***************************************************************************)
AdjustingLock(sn, key, ts) == LockInWay(sn, key, ts) /\ sn.lock_cf[key].kind = "adjust"

\* The result of the walk of key at ts on a fresh getter that checks no lock.
WalkAt(sn, key, ts) ==
    read_next(build([multi |-> getter.multi, fill_cache |-> getter.fill_cache,
                     omit_value |-> getter.omit_value, isolation_level |-> "RC"]),
              sn, key, ts, "none").result

C11_AdjustedTsIsAdopted ==
    (Returned /\ getter.isolation_level = "SI" /\ last.fault = "none")
    => /\ last.lock_calls = 1
       /\ AdjustingLock(snapshot, last.key, last.ts)
            => last.result = WalkAt(snapshot, last.key, snapshot.lock_cf[last.key].ts - 1)
       /\ ~LockInWay(snapshot, last.key, last.ts)
            => last.result = WalkAt(snapshot, last.key, last.ts)

\* A read above a newer Put that returned the older Put, the one visible at
\* the adjusted timestamp.
C11_Witness ==
    /\ Returned
    /\ getter.isolation_level = "SI"
    /\ ~getter.omit_value
    /\ AdjustingLock(snapshot, last.key, last.ts)
    /\ last.result.tag = "OkSome"
    /\ \E i \in NewestRecord(snapshot, last.key, snapshot.lock_cf[last.key].ts - 1) :
          last.result.value \in PayloadsAt(snapshot, i)
    /\ \E i \in NewestRecord(snapshot, last.key, last.ts) :
          /\ WriteAt(snapshot, i).write_type = "Put"
          /\ CommitTsAt(snapshot, i) >= snapshot.lock_cf[last.key].ts

(***************************************************************************)
(* C12.  Every failure raised inside read_next other than misuse is        *)
(* returned as an Err and never turned into not found or into a value: a   *)
(* lock conflict, a failed seek, and, at an entry the walk inspects, a key *)
(* that cannot be truncated, a write record that cannot be parsed, a       *)
(* value-store cursor that cannot be created, a payload that is missing.   *)
(* Without any of them the call returns no Err.  The lock collaborator is  *)
(* invoked at most once per call.                                          *)
(***************************************************************************)
\* The positions of the write index the walk inspects from a positioned
\* cursor: the entry under the cursor and, while that entry is a Lock or a
\* Rollback of key, the entries under the cursor as the walk moves it.
RECURSIVE InspectedFrom(_, _, _)
InspectedFrom(sn, key, cursor) ==
    IF ~CursorValid(sn, cursor)
    THEN {}
    ELSE LET user_key == TruncateTs(CursorKey(sn, cursor))
             parsed == WriteParse(CursorValue(sn, cursor))
         IN IF /\ user_key.ok
               /\ user_key.key = key
               /\ parsed.ok
               /\ parsed.write.write_type \in {"Lock", "Rollback"}
            THEN {cursor.pos}
                   \cup InspectedFrom(sn, key, AdvanceSkipped(sn, AdvanceParsed(sn, cursor)))
            ELSE {cursor.pos}

\* The failure the entry at position p raises for a reader of key.
FailureAt(self, sn, key, fault, p) ==
    LET user_key == TruncateTs(sn.write_cf[p].key)
        parsed == WriteParse(sn.write_cf[p].value)
    IN IF ~user_key.ok THEN "BadKey"
       ELSE IF user_key.key # key THEN "none"
       ELSE IF ~parsed.ok THEN "BadWrite"
       ELSE IF \/ parsed.write.write_type # "Put"
               \/ self.omit_value
               \/ IsSome(parsed.write.short_value) THEN "none"
       ELSE IF fault = "iter_cf" /\ ~IsSome(self.default_cursor) THEN "Engine"
       ELSE IF PayloadsAt(sn, p) = {} THEN "DefaultNotFound"
       ELSE "none"

\* The failure a call of read_next(key, ts) on self meets first.
FailureOf(self, sn, key, ts, fault) ==
    LET si == self.isolation_level = "SI"
        walk_ts == IF si /\ LockInWay(sn, key, ts) THEN sn.lock_cf[key].ts - 1 ELSE ts
        start == NearSeek(sn, self.write_cursor, AppendTs(key, walk_ts))
        failures == {FailureAt(self, sn, key, fault, p) : p \in InspectedFrom(sn, key, start)}
                        \ {"none"}
    IN IF si /\ ConflictingLock(sn, key, ts) THEN "Conflict"
       ELSE IF fault = "seek" THEN "Engine"
       ELSE IF failures = {} THEN "none"
       ELSE CHOOSE e \in failures : TRUE

C12_FailuresAreReturned ==
    [][(phase = "getter" /\ phase' = "getter" /\ last'.op = "read_next")
       => LET failure == FailureOf(getter, snapshot, last'.key, last'.ts, last'.fault)
          IN /\ last'.lock_calls <= 1
             /\ failure # "none" => last'.result = Err(failure)
             /\ failure = "none" => last'.result.tag \in {"OkSome", "OkNone"}]_vars

\* A Put whose payload is missing from the value store, reported as an error
\* by a call that checked the lock once.
C12_Witness ==
    /\ Returned
    /\ last.lock_calls = 1
    /\ last.result = Err("DefaultNotFound")
    /\ IsSome(getter.default_cursor)
    /\ \E i \in NewestRecord(snapshot, last.key, last.ts) :
          /\ WriteAt(snapshot, i).write_type = "Put"
          /\ PayloadsAt(snapshot, i) = {}

(***************************************************************************)
(* C13.  The value-store cursor is lazy and memoized: absent after         *)
(* build(); created by a call exactly when its walk reaches a Put without  *)
(* inlined value with omit_value = false (and the creation succeeds); once *)
(* created it is never created again nor reset to absent by a later        *)
(* read_next or take_statistics.  The write cursor is created in build()   *)
(* and never re-created.                                                   *)
(***************************************************************************)
\* The call of read_next(key, ts) on self reaches a Put without inlined value
\* that it has to fetch.
ReachesStoredPut(self, sn, key, ts, fault) ==
    LET si == self.isolation_level = "SI"
        walk_ts == IF si /\ LockInWay(sn, key, ts) THEN sn.lock_cf[key].ts - 1 ELSE ts
        start == NearSeek(sn, self.write_cursor, AppendTs(key, walk_ts))
    IN /\ ~(si /\ ConflictingLock(sn, key, ts))
       /\ fault # "seek"
       /\ ~self.omit_value
       /\ \E p \in InspectedFrom(sn, key, start) :
             /\ PrefixOf(sn.write_cf[p].key) = key
             /\ WriteParse(sn.write_cf[p].value).ok
             /\ WriteAt(sn, p).write_type = "Put"
             /\ ~IsSome(WriteAt(sn, p).short_value)

\* The cursor is the one that was created: same region, options and mode,
\* and once positioned it is never an unpositioned cursor again.
SameCursor(old, new) ==
    /\ new.cf = old.cf
    /\ new.iter_opt = old.iter_opt
    /\ new.scan_mode = old.scan_mode
    /\ old.pos # 0 => new.pos # 0

C13_DefaultCursorLazyAndMemoized ==
    [][/\ last'.op = "build"
          => /\ getter'.default_cursor = None
             /\ getter'.write_cursor
                  = IterCf("write", build_iter_opt(builder.fill_cache, ~builder.multi), "Forward")
       /\ (phase = "getter" /\ phase' = "getter")
          => /\ SameCursor(getter.write_cursor, getter'.write_cursor)
             /\ IsSome(getter.default_cursor)
                  => /\ IsSome(getter'.default_cursor)
                     /\ SameCursor(Unwrap(getter.default_cursor), Unwrap(getter'.default_cursor))
                     /\ last'.fault = "iter_cf" => last'.result # Err("Engine")
             /\ ~IsSome(getter.default_cursor)
                  => (IsSome(getter'.default_cursor)
                        <=> /\ last'.op = "read_next"
                            /\ last'.fault # "iter_cf"
                            /\ ReachesStoredPut(getter, snapshot, last'.key, last'.ts,
                                                last'.fault))]_vars

\* A payload fetched through the memoized cursor by a call during which the
\* engine could not have created one.
C13_Witness ==
    /\ Returned
    /\ last.fault = "iter_cf"
    /\ last.result.tag = "OkSome"
    /\ Len(last.result.value) = 3
    /\ IsSome(getter.default_cursor)

(***************************************************************************)
(* C14.  The one-shot guard of a single-use getter is consumed by the      *)
(* first read_next call whatever its outcome (a value, not found or an     *)
(* error such as Conflict): the second call aborts, and it aborts before   *)
(* it consults the lock collaborator, moves a cursor or changes the        *)
(* statistics.                                                             *)
(***************************************************************************)
C14_GuardConsumedByAnyOutcome ==
    [][(phase = "getter" /\ last'.op = "read_next")
       => /\ phase' = "getter" => getter'.read_once
          /\ (called /\ ~getter.multi)
               => /\ phase' = "aborted"
                  /\ last'.result = Panic
                  /\ last'.lock_calls = 0
                  /\ getter' = getter]_vars

\* A single-use getter aborted by its second call after its first call was
\* refused by the lock check before any seek.
C14_Witness ==
    /\ phase = "aborted"
    /\ ~getter.multi
    /\ getter.read_once
    /\ getter.isolation_level = "SI"
    /\ ~snapshot.faulty
    /\ getter.write_cursor.pos = 0
    /\ getter.statistics = StatisticsDefault
    /\ last.result = Panic
    /\ last.lock_calls = 0

(***************************************************************************)
(* C15.  The misuse abort happens only for a repeated call on a single-use *)
(* getter: the first read_next of any getter, and every read_next of a     *)
(* getter built with multi = true, in any number and order and interleaved *)
(* with take_statistics, does not abort.  The configuration (multi,        *)
(* fill_cache, omit_value, isolation_level) is the builder's at build()    *)
(* and stays as set over every sequence of calls.                          *)
(***************************************************************************)
Configuration(c) ==
    [multi |-> c.multi, fill_cache |-> c.fill_cache,
     omit_value |-> c.omit_value, isolation_level |-> c.isolation_level]

C15_AbortOnlyOnRepeatedSingleUse ==
    [][/\ (phase = "getter" /\ last'.op = "read_next" /\ (~called \/ getter.multi))
          => (phase' = "getter" /\ last'.result # Panic)
       /\ last'.op = "build" => Configuration(getter') = Configuration(builder)
       /\ phase = "getter" => Configuration(getter') = Configuration(getter)]_vars

\* A multi-use getter with a non-default configuration that served a read,
\* had its statistics taken, and served another read.
C15_Witness ==
    /\ Returned
    /\ getter.multi
    /\ ~getter.fill_cache
    /\ getter.isolation_level = "RC"
    /\ IsSome(getter.default_cursor)
    /\ getter.statistics.data.processed = 0
    /\ getter.statistics.write.processed = 1
    /\ last.result.tag = "OkSome"

(***************************************************************************)
(* C16.  Snapshot safety of returned values: a non-empty value returned by *)
(* read_next(K, ts) with omit_value = false is the payload of a Put record *)
(* of exactly the user key K whose commit timestamp is at or below the     *)
(* effective read timestamp; never the payload of a record of another key  *)
(* nor of a version committed later, after any sequence of earlier calls.  *)
(***************************************************************************)
C16_ReturnedValueIsVisiblePutOfKey ==
    (/\ Returned
     /\ ~getter.omit_value
     /\ last.result.tag = "OkSome"
     /\ last.result.value # EmptyValue)
    => \E p \in RecordsOf(snapshot, last.key) :
          /\ WriteAt(snapshot, p).write_type = "Put"
          /\ CommitTsAt(snapshot, p) <= EffectiveTs
          /\ last.result.value \in PayloadsAt(snapshot, p)

\* A payload of the key fetched from the value store by a read above its
\* commit timestamp, the Put of the next key lying right behind it, by a
\* getter that had already processed a record.
C16_Witness ==
    /\ Returned
    /\ ~getter.omit_value
    /\ getter.multi
    /\ last.result.tag = "OkSome"
    /\ Len(last.result.value) = 3
    /\ getter.statistics.write.processed = 2
    /\ \A p \in NewestRecord(snapshot, last.key, last.ts) : CommitTsAt(snapshot, p) < last.ts
    /\ \E p \in RecordsOf(snapshot, last.key + 1) : WriteAt(snapshot, p).write_type = "Put"

(***************************************************************************)
(* C17.  History independence of a multi-use getter: after every sequence  *)
(* of read_next calls (any keys, any timestamps, whatever they returned)   *)
(* and take_statistics calls, the result of the next read_next(K, ts)      *)
(* equals the result of the same call on a freshly built getter over the   *)
(* same snapshot: the position the write cursor was left at changes no     *)
(* result.  (A failure to create the value-store cursor can strike only a  *)
(* getter that has none yet.)                                              *)
(***************************************************************************)
\* The engine failure that can strike a call on self.
StrikingFault(self, fault) ==
    IF fault = "iter_cf" /\ IsSome(self.default_cursor) THEN "none" ELSE fault

C18_WalkTerminates ==
    /\ [][(phase = "walk" /\ phase' = "walk")
            => getter'.write_cursor.pos > getter.write_cursor.pos]_vars
    /\ (phase = "walk") ~> (phase # "walk" /\ last.result # NoResult)

\* A call that returned a Put after its loop had skipped a Rollback and the
\* record below it.
C18_Witness ==
    /\ phase = "getter"
    /\ last.op = "read_next"
    /\ last.result.tag = "OkSome"
    /\ getter.statistics.write.processed = 2
    /\ \E i \in NewestRecord(snapshot, last.key, EffectiveTs) :
          WriteAt(snapshot, i).write_type = "Rollback"
    /\ Cardinality(VisibleRecords(snapshot, last.key, EffectiveTs)) = 3

====
